---- MODULE Spec2Model ----
(***************************************************************************)
(* The Avro-schema to TypeScript translator (avro-typescript/index.ts).    *)
(*                                                                         *)
(* Text is modelled by TLA+ strings, character for character: "\t" and     *)
(* "\n" are the tab and the line feed of the template literals.            *)
(*                                                                         *)
(* A schema node is a record tagged by its JavaScript shape:               *)
(*   [kind |-> "string", value |-> s]          a JSON string               *)
(*   [kind |-> "union",  members |-> <<..>>]   a JSON array                *)
(*   [kind |-> "object", type |-> .., ...]     a JSON object               *)
(* A field's default is a JSON value tagged by its JavaScript type; the    *)
(* absent key is JUndefined.  An absent doc is the empty string.           *)
(***************************************************************************)
EXTENDS Integers, Sequences, FiniteSets, TLC

VARIABLES
  interfaces,   \* the module-level table: declared name -> generated name
  schema,       \* argument of the latest call
  before,       \* the table as the latest call found it
  buffer,       \* the latest call's output array, as it was when the call ended
  output,       \* text returned by the latest call, "" when it threw
  thrown        \* the latest call threw, which ended the process

vars == <<interfaces, schema, before, buffer, output, thrown>>

----------------------------------------------------------------------------
(* JSON values and schema nodes *)

JUndefined == [t |-> "undefined"]
JNull == [t |-> "null"]
JNumber(n) == [t |-> "number", num |-> n]
JBoolean(b) == [t |-> "boolean", bool |-> b]
JString(s) == [t |-> "string", str |-> s]

\* the value of an omitted optional parameter / an absent node
Undefined == [kind |-> "undefined"]

Str(s) == [kind |-> "string", value |-> s]
Union(ms) == [kind |-> "union", members |-> ms]
Record(n, fs) == [kind |-> "object", type |-> "record", name |-> n, doc |-> "", fields |-> fs]
Enum(n, syms) == [kind |-> "object", type |-> "enum", name |-> n, doc |-> "", symbols |-> syms]
Array(t) == [kind |-> "object", type |-> "array", items |-> t]
Map(t) == [kind |-> "object", type |-> "map", values |-> t]
Decimal == [kind |-> "object", type |-> "bytes", logicalType |-> "decimal"]
Fixed == [kind |-> "object", type |-> "fixed", name |-> "F"]
Timestamp == [kind |-> "object", type |-> "long", logicalType |-> "timestamp-millis"]
Field(n, d, t) == [name |-> n, doc |-> "", default |-> d, type |-> t]

----------------------------------------------------------------------------
(* String helpers of the JavaScript runtime *)

\* s.indexOf(c) >= 0 for a one-character c
Contains(s, c) == \E i \in 1..Len(s) : SubSeq(s, i, i) = c

\* const isUnion = (s: string) => s.indexOf('|') >= 0
isUnion(s) == Contains(s, "|")

\* position of the last "." of s at or before i, 0 when there is none
RECURSIVE LastDot(_, _)
LastDot(s, i) ==
  IF i = 0 THEN 0
  ELSE IF SubSeq(s, i, i) = "." THEN i
  ELSE LastDot(s, i - 1)

\* Array.prototype.join
RECURSIVE join(_, _)
join(seq, sep) ==
  IF Len(seq) = 0 THEN ""
  ELSE IF Len(seq) = 1 THEN seq[1]
  ELSE seq[1] \o sep \o join(Tail(seq), sep)

\* arr.indexOf(value) === index
isUnique(value, index, arr) == \A j \in 1..(index - 1) : arr[j] # value

\* Array.prototype.filter(isUnique)
RECURSIVE filterUnique(_, _)
filterUnique(arr, n) ==
  IF n = 0 THEN <<>>
  ELSE IF isUnique(arr[n], n, arr)
       THEN Append(filterUnique(arr, n - 1), arr[n])
       ELSE filterUnique(arr, n - 1)

\* !!v
Truthy(v) ==
  CASE v.t = "undefined" -> FALSE
    [] v.t = "null" -> FALSE
    [] v.t = "number" -> v.num # 0
    [] v.t = "boolean" -> v.bool
    [] v.t = "string" -> v.str # ""
    [] OTHER -> TRUE

----------------------------------------------------------------------------
(* ./model : the shape predicates *)

isRecordType(type) == type.kind = "object" /\ type.type = "record"
isArrayType(type) == type.kind = "object" /\ type.type = "array"
isMapType(type) == type.kind = "object" /\ type.type = "map"
isEnumType(type) == type.kind = "object" /\ type.type = "enum"
isLogicalDecimalType(type) ==
  /\ type.kind = "object"
  /\ "logicalType" \in DOMAIN type
  /\ type.logicalType = "decimal"

\* structurally optional: the null primitive, or a union containing it
isOptional(type) ==
  \/ type = Str("null")
  \/ /\ type.kind = "union"
     /\ \E i \in 1..Len(type.members) : type.members[i] = Str("null")

\* ../utils : no doc, no block; otherwise a one-line block comment
\* (a doc longer than width is wrapped; wrapping is not modelled)
createDocumentation(doc, width, indent) ==
  IF doc = "" THEN ""
  ELSE indent \o "/**\n" \o indent \o " * " \o doc \o "\n" \o indent \o " */\n"

----------------------------------------------------------------------------
(* avro-typescript/index.ts *)

\* what a failed table lookup throws
TypeError == "TypeError: interfaces.hasOwnProperty is not a function"

\* interfaces.hasOwnProperty(n) ? interfaces[n] : n
\* interfaces is a plain object: once the key "hasOwnProperty" is its own,
\* interfaces.hasOwnProperty is a string and the call throws.
Resolve(tbl, n) ==
  IF "hasOwnProperty" \in DOMAIN tbl
  THEN [thrown |-> TRUE, ret |-> TypeError]
  ELSE [thrown |-> FALSE, ret |-> IF n \in DOMAIN tbl THEN tbl[n] ELSE n]

\* interfaces[k] = v: the key "__proto__" reaches the prototype setter, which
\* ignores a string and creates no key
Assign(tbl, k, v) == IF k = "__proto__" THEN tbl ELSE (k :> v) @@ tbl

\* name.split('.').pop()
stripNamespace(name) == SubSeq(name, LastDot(name, Len(name)) + 1, Len(name))

convertPrimitive(avroType, hasDefaultValue, tbl) ==
  CASE avroType \in {"long", "int", "double", "float"} -> [thrown |-> FALSE, ret |-> "number"]
    [] avroType = "bytes" -> [thrown |-> FALSE, ret |-> "Buffer"]
    [] avroType = "null" ->
         [thrown |-> FALSE, ret |-> IF hasDefaultValue THEN "null" ELSE "null | undefined"]
    [] avroType = "boolean" -> [thrown |-> FALSE, ret |-> "boolean"]
    [] OTHER -> Resolve(tbl, stripNamespace(avroType))

document(field, indent) == createDocumentation(field.doc, 80, indent)

\* s => `${s} = '${s}'`
enumMember(s) == s \o " = '" \o s \o "'"

enumMembers(symbols) == [i \in 1..Len(symbols) |-> enumMember(symbols[i])]

\* A conversion's effect is threaded as st = [buffer, interfaces, thrown];
\* its result is [ret |-> the returned string, st |-> the state it leaves].
\* Once st.thrown holds the exception is propagating: nothing more is done.
Throw(st) == [ret |-> TypeError, st |-> [st EXCEPT !.thrown = TRUE]]

convertEnum(enumType, st) ==
  LET doc == document(enumType, "")
      enumDef == doc \o "export enum " \o enumType.name \o " {\n\t"
                 \o join(enumMembers(enumType.symbols), ",\n\t") \o "\n}\n"
  IN [ret |-> enumType.name,
      st |-> [st EXCEPT !.buffer = Append(@, enumDef)]]

hasDefaultValueOf(field) == Truthy(field.default) \/ field.default = JNull

RECURSIVE convertType(_, _, _, _)
RECURSIVE convertRecord(_, _, _)
RECURSIVE convertFieldDec(_, _, _)
RECURSIVE mapFields(_, _, _)
RECURSIVE mapMembers(_, _, _)

\* An operator below whose name ends in "End" is the part of the function
\* that runs after the nested conversion has come back; it takes that
\* conversion's result as a parameter.

\* recordType.fields.map(field => convertFieldDec(field, buffer, recordType))
mapFieldsEnd(h, rest, recordType) ==
  IF h.st.thrown THEN [ret |-> <<>>, st |-> h.st]
  ELSE [mapFields(rest, h.st, recordType) EXCEPT !.ret = <<h.ret>> \o @]

mapFields(fields, st, recordType) ==
  IF Len(fields) = 0 THEN [ret |-> <<>>, st |-> st]
  ELSE mapFieldsEnd(convertFieldDec(Head(fields), st, recordType), Tail(fields), recordType)

\* type.map(t => stripNamespace(convertType(t, hasDefaultValue, buffer)))
mapMembersEnd(h, rest, hasDefaultValue) ==
  IF h.st.thrown THEN [ret |-> <<>>, st |-> h.st]
  ELSE [mapMembers(rest, hasDefaultValue, h.st) EXCEPT !.ret = <<stripNamespace(h.ret)>> \o @]

mapMembers(members, hasDefaultValue, st) ==
  IF Len(members) = 0 THEN [ret |-> <<>>, st |-> st]
  ELSE mapMembersEnd(convertType(Head(members), hasDefaultValue, st, Undefined),
                     Tail(members), hasDefaultValue)

\* `I${stripNamespace(parentRecordType.name)}${stripNamespace(recordType.name)}`
\* or `I${stripNamespace(recordType.name)}`
cleanNameOf(recordType, parentRecordType) ==
  IF parentRecordType # Undefined
  THEN "I" \o stripNamespace(parentRecordType.name) \o stripNamespace(recordType.name)
  ELSE "I" \o stripNamespace(recordType.name)

\* the interface block, buffer.push(interfaceDef), the registration, the return
convertRecordEnd(recordType, cleanName, fs) ==
  LET doc == document(recordType, "")
      interfaceDef == doc \o "export interface " \o cleanName \o " {\n"
                      \o join(fs.ret, "\n") \o "\n}\n"
  IN IF fs.st.thrown THEN Throw(fs.st)
     ELSE [ret |-> cleanName,
           st |-> [buffer |-> Append(fs.st.buffer, interfaceDef),
                   interfaces |-> Assign(fs.st.interfaces, recordType.name, cleanName),
                   thrown |-> FALSE]]

convertRecord(recordType, st, parentRecordType) ==
  convertRecordEnd(recordType, cleanNameOf(recordType, parentRecordType),
                   mapFields(recordType.fields, st, recordType))

\* .map(n => interfaces.hasOwnProperty(n) ? interfaces[n] : n) throws at its
\* first element
resolveAll(tbl, names) ==
  [thrown |-> \E i \in 1..Len(names) : Resolve(tbl, names[i]).thrown,
   ret |-> [i \in 1..Len(names) |-> Resolve(tbl, names[i]).ret]]

\* the second .map, .filter(isUnique), .join(' | ')
convertUnionEnd(ms) ==
  LET names == resolveAll(ms.st.interfaces, ms.ret)
  IN IF ms.st.thrown \/ names.thrown THEN Throw(ms.st)
     ELSE [ret |-> join(filterUnique(names.ret, Len(names.ret)), " | "), st |-> ms.st]

\* convertType, type instanceof Array: a union
convertUnion(type, hasDefaultValue, st) ==
  convertUnionEnd(mapMembers(type.members, hasDefaultValue, st))

\* stripNamespace, the lookup, Array<..> or ..[]
convertArrayEnd(it) ==
  LET name == stripNamespace(it.ret)
      properName == Resolve(it.st.interfaces, name)
  IN IF it.st.thrown \/ properName.thrown THEN Throw(it.st)
     ELSE [ret |-> IF isUnion(properName.ret)
                   THEN "Array<" \o properName.ret \o ">"
                   ELSE properName.ret \o "[]",
           st |-> it.st]

\* convertType, isArrayType(type)
convertArray(type, hasDefaultValue, st) ==
  convertArrayEnd(convertType(type.items, hasDefaultValue, st, Undefined))

convertMapEnd(v) ==
  IF v.st.thrown THEN Throw(v.st)
  ELSE [ret |-> "{ [key: string]: " \o v.ret \o " }", st |-> v.st]

\* convertType, isMapType(type)
convertMap(type, hasDefaultValue, st) ==
  convertMapEnd(convertType(type.values, hasDefaultValue, st, Undefined))

\* convertType, the final else: console.error(..); return 'UNKNOWN'
convertUnknown(type, st) == [ret |-> "UNKNOWN", st |-> st]

convertType(type, hasDefaultValue, st, parentRecordType) ==
  IF type.kind = "string" THEN
    LET p == convertPrimitive(type.value, hasDefaultValue, st.interfaces)
    IN IF p.thrown THEN Throw(st) ELSE [ret |-> p.ret, st |-> st]
  ELSE IF type.kind = "union" THEN convertUnion(type, hasDefaultValue, st)
  ELSE IF isRecordType(type) THEN convertRecord(type, st, parentRecordType)
  ELSE IF isArrayType(type) THEN convertArray(type, hasDefaultValue, st)
  ELSE IF isMapType(type) THEN convertMap(type, hasDefaultValue, st)
  ELSE IF isEnumType(type) THEN convertEnum(type, st)
  ELSE IF isLogicalDecimalType(type) THEN [ret |-> "number", st |-> st]
  ELSE convertUnknown(type, st)

\* convertFieldDecEnd deciding "?" by isOptional(field.type) alone
convertFieldDecEndNoDefaultTest(field, hasDefaultValue, type) ==
  LET replacedType == Resolve(type.st.interfaces, type.ret)
  IN IF type.st.thrown \/ replacedType.thrown THEN Throw(type.st)
     ELSE [ret |-> document(field, "\t") \o "\t" \o field.name
                   \o (IF isOptional(field.type) THEN "?" ELSE "")
                   \o ": " \o replacedType.ret \o ";",
           st |-> type.st]

\* replacedType and the returned line
convertFieldDecEnd(field, hasDefaultValue, type) ==
  LET doc == document(field, "\t")
      replacedType == Resolve(type.st.interfaces, type.ret)
  IN IF type.st.thrown \/ replacedType.thrown THEN Throw(type.st)
     ELSE [ret |-> doc \o "\t" \o field.name
                   \o (IF isOptional(field.type) /\ ~hasDefaultValue THEN "?" ELSE "")
                   \o ": " \o replacedType.ret \o ";",
           st |-> type.st]

convertFieldDec(field, st, parentRecordType) ==
  convertFieldDecEnd(field, hasDefaultValueOf(field),
                     convertType(field.type, hasDefaultValueOf(field), st, parentRecordType))

\* return output.join('\n'), unless the conversion threw
avroToTypeScriptEnd(r) ==
  IF r.st.thrown THEN Throw(r.st)
  ELSE [ret |-> join(r.st.buffer, "\n"), st |-> r.st]

\* the call's effect: [ret |-> output.join('\n'), st |-> [buffer, interfaces,
\* thrown]]; when st.thrown holds the call returned nothing
avroToTypeScript(recordType, tbl) ==
  avroToTypeScriptEnd(
    IF recordType.type = "enum"
    THEN convertEnum(recordType, [buffer |-> <<>>, interfaces |-> tbl, thrown |-> FALSE])
    ELSE convertRecord(recordType, [buffer |-> <<>>, interfaces |-> tbl, thrown |-> FALSE],
                       Undefined))

----------------------------------------------------------------------------
(* Inputs.  No schema carries a doc. *)

MaxSymbols == 2
MaxMembers == 3
MaxFields == 2

SeqsUpTo(S, n) == UNION {[1..k -> S] : k \in 1..n}

Symbols == <<"RED", "GREEN", "BLUE", "CYAN">>
EnumTypes == {Enum(n, SubSeq(Symbols, 1, k)) : n \in {"E", "n.E"}, k \in 1..MaxSymbols}

B == Record("B", <<>>)
HasOwn == Record("hasOwnProperty", <<>>)
Proto == Record("__proto__", <<>>)
Number == Record("number", <<>>)

Strings == {"long", "int", "double", "float", "bytes", "boolean", "null", "string",
            "A", "n.A", "B"}
FieldTypes ==
  {Str(s) : s \in Strings} \cup {Decimal, Fixed, Timestamp} \cup EnumTypes \cup {B, Number, HasOwn, Proto, Str("__proto__")}
  \cup {Union(ms) : ms \in {<<Str("null"), Str("string")>>, <<Str("string"), Str("null")>>,
                            <<Str("null"), B>>, <<Str("null"), Str("n.A")>>,
                            <<Str("null"), Enum("n.E", <<"RED">>)>>, <<Str("long"), Fixed>>}}
  \cup {Array(t) : t \in {Str("long"), Str("null"), Str("n.A"), B, Fixed,
                          Enum("n.E", <<"RED">>), Union(<<Str("null"), Str("A")>>)}}
  \cup {Map(t) : t \in {Str("long"), Str("null"), Str("n.A"), B, Enum("n.E", <<"RED">>)}}

AllDefaults == {JUndefined, JNull, JNumber(0), JNumber(1), JBoolean(FALSE), JString(""),
                JString("x")}

\* the general inputs
Schemas ==
  {Record(n, <<Field("f", d, t)>>) :
     n \in {"A", "n.A"}, d \in {JUndefined, JNull}, t \in FieldTypes}
  \cup {Record("A", <<Field("f", d, t)>>) :
     d \in AllDefaults,
     t \in {Str("null"), Str("long"), Union(<<Str("null"), Str("string")>>)}}
  \cup {Record("A", <<Field("u", JUndefined, t), Field("g", JUndefined, B)>>) :
     t \in {Fixed, Timestamp, Array(Fixed)}}
  \cup EnumTypes \cup {HasOwn, Proto}

\* inputs rich in unions
StringStringNull == Union(<<Str("string"), Str("string"), Str("null")>>)
UnionMembers == {Str("null"), Str("string"), Str("A")}
UnionSchemas ==
  {Record("A", <<Field("f", d, Union(ms))>>) :
     d \in {JUndefined, JNull}, ms \in SeqsUpTo(UnionMembers, MaxMembers)}
  \cup {Record("A", <<Field("f", JUndefined, Union(ms))>>) :
     ms \in {<<Str("A"), Str("n.A")>>, <<Str("n.A"), Str("A")>>,
             <<Str("n.A"), Str("null"), Str("A"), Str("n.A")>>,
             <<Str("long"), Str("int"), Str("bytes"), Str("double")>>,
             <<Str("A"), Record("A", <<>>)>>, <<Record("A", <<>>), Str("A")>>,
             <<Enum("n.E", <<"RED">>), Str("E")>>}}
  \cup {Record("A", <<Field("f", d, StringStringNull)>>) : d \in AllDefaults}
  \cup {Record("n.A", <<>>), HasOwn}

\* inputs rich in nested declarations
Address == Record("Address", <<>>)
Zip == Record("Zip", <<>>)
DeepAddress == Record("Address", <<Field("zip", JUndefined, Zip)>>)
NsAddress == Record("n.Address", <<Field("kind", JUndefined, Enum("E", <<"RED">>))>>)
Wrapped(r) == {r, Array(r), Map(r), Union(<<Str("null"), r>>)}
NestedTypes ==
  Wrapped(Address) \cup Wrapped(DeepAddress) \cup Wrapped(NsAddress)
  \cup {Enum("E", <<"RED">>), Array(Enum("E", <<"RED">>)), Str("Address"), HasOwn}
FieldNames == <<"f", "g", "h", "i">>
NestedSchemas ==
  {Record(n, <<Field("f", JUndefined, t)>>) : n \in {"P", "n.Q"}, t \in NestedTypes}
  \cup {Record("P", [i \in 1..Len(ts) |-> Field(FieldNames[i], JUndefined, ts[i])]) :
     ts \in SeqsUpTo({Address, Enum("E", <<"RED">>), Union(<<Str("null"), Zip>>)}, MaxFields)}

----------------------------------------------------------------------------
(* The program: a process that calls avroToTypeScript again and again. *)

Init ==
  /\ interfaces = <<>>
  /\ schema = Undefined
  /\ before = <<>>
  /\ buffer = <<>>
  /\ output = ""
  /\ thrown = FALSE

\* one pass of the loop over the input files; an exception is not caught
Call(recordType) ==
  /\ ~thrown
  /\ LET r == avroToTypeScript(recordType, interfaces)
     IN /\ interfaces' = r.st.interfaces
        /\ buffer' = r.st.buffer
        /\ output' = IF r.st.thrown THEN "" ELSE r.ret
        /\ thrown' = r.st.thrown
  /\ before' = interfaces
  /\ schema' = recordType

Next == \E s \in Schemas : Call(s)
Spec == Init /\ [][Next]_vars

NextUnion == \E s \in UnionSchemas : Call(s)
SpecUnion == Init /\ [][NextUnion]_vars

NextNested == \E s \in NestedSchemas : Call(s)
SpecNested == Init /\ [][NextNested]_vars

----------------------------------------------------------------------------
(* Vocabulary of the properties *)

\* sub occurs in s
HasSub(s, sub) == \E i \in 1..(Len(s) - Len(sub) + 1) : SubSeq(s, i, i + Len(sub) - 1) = sub

\* s starts with pre
StartsWith(s, pre) == Len(pre) <= Len(s) /\ SubSeq(s, 1, Len(pre)) = pre

\* position of the first c in s at or after i, 0 when there is none
RECURSIVE IndexFrom(_, _, _)
IndexFrom(s, c, i) ==
  IF i > Len(s) THEN 0
  ELSE IF SubSeq(s, i, i) = c THEN i
  ELSE IndexFrom(s, c, i + 1)

\* the pieces of s between the occurrences of the character c
RECURSIVE Split(_, _)
Split(s, c) ==
  LET i == IndexFrom(s, c, 1)
  IN IF i = 0 THEN <<s>>
     ELSE <<SubSeq(s, 1, i - 1)>> \o Split(SubSeq(s, i + 1, Len(s)), c)

\* the lines of the block the latest call appended last
LastBlockLines == Split(buffer[Len(buffer)], "\n")

\* the line of the i-th field of the top-level record
FieldLine(i) == LastBlockLines[i + 1]

\* the type text of a field line: what stands between ": " and the final ";"
TypeText(line) ==
  LET c == IndexFrom(line, ":", 1) IN SubSeq(line, c + 2, Len(line) - 1)

\* the null primitive occurs in the type, outside any nested record
RECURSIVE MentionsNull(_)
MentionsNull(type) ==
  IF type.kind = "string" THEN type.value = "null"
  ELSE IF type.kind = "union"
       THEN \E i \in 1..Len(type.members) : MentionsNull(type.members[i])
  ELSE IF type.type = "array" THEN MentionsNull(type.items)
  ELSE IF type.type = "map" THEN MentionsNull(type.values)
  ELSE FALSE

\* structurally optional (spec section 3)
StructurallyOptional(type) ==
  \/ type.kind = "string" /\ type.value = "null"
  \/ type.kind = "union" /\ \E i \in 1..Len(type.members) : type.members[i] = Str("null")

\* s ends with suf
EndsWith(s, suf) ==
  Len(suf) <= Len(s) /\ SubSeq(s, Len(s) - Len(suf) + 1, Len(s)) = suf

\* the records and enums declared in a node, children before parents, each
\* with the record whose field it was met in (Undefined at the top level)
RECURSIVE Declared(_, _)
RECURSIVE DeclaredInAll(_, _)
DeclaredInAll(types, parent) ==
  IF Len(types) = 0 THEN <<>>
  ELSE Declared(Head(types), parent) \o DeclaredInAll(Tail(types), parent)
Declared(type, parent) ==
  IF type.kind = "string" THEN <<>>
  ELSE IF type.kind = "union" THEN DeclaredInAll(type.members, parent)
  ELSE IF type.type = "record"
       THEN DeclaredInAll([i \in 1..Len(type.fields) |-> type.fields[i].type], type)
            \o <<[node |-> type, parent |-> parent]>>
  ELSE IF type.type = "enum" THEN <<[node |-> type, parent |-> parent]>>
  ELSE IF type.type = "array" THEN Declared(type.items, parent)
  ELSE IF type.type = "map" THEN Declared(type.values, parent)
  ELSE <<>>

DeclaredNow == Declared(schema, Undefined)

\* "RED = 'RED',\n\tGREEN = 'GREEN'": one member per symbol, in order
RECURSIVE ExpectedMembers(_)
ExpectedMembers(symbols) ==
  IF Len(symbols) = 0 THEN ""
  ELSE LET h == Head(symbols)
       IN h \o " = '" \o h \o "'"
          \o (IF Len(symbols) = 1 THEN "" ELSE ",\n\t" \o ExpectedMembers(Tail(symbols)))

ExpectedEnumBlock(name, symbols) ==
  "export enum " \o name \o " {\n\t" \o ExpectedMembers(symbols) \o "\n}\n"

Primitives == {"long", "int", "double", "float", "bytes", "boolean"}
Target(p) ==
  IF p \in {"long", "int", "double", "float"} THEN "number"
  ELSE IF p = "bytes" THEN "Buffer" ELSE "boolean"

\* neither a string, a union, a record, an array, a map, an enum nor a decimal
IsUnknownShape(type) ==
  /\ type.kind = "object"
  /\ type.type \notin {"record", "array", "map", "enum"}
  /\ ~("logicalType" \in DOMAIN type /\ type.logicalType = "decimal")

\* the top-level record has an unrecognized shape in a field
MeetsUnknown ==
  \E i \in 1..Len(schema.fields) :
    LET t == schema.fields[i].type
    IN \/ IsUnknownShape(t)
       \/ t.kind = "object" /\ t.type = "array" /\ IsUnknownShape(t.items)
       \/ t.kind = "union" /\ Len(t.members) > 0
                             /\ IsUnknownShape(t.members[Len(t.members)])

Range(seq) == {seq[i] : i \in 1..Len(seq)}

\* position of the first occurrence of x in seq
First(seq, x) == CHOOSE i \in 1..Len(seq) : seq[i] = x /\ \A j \in 1..(i - 1) : seq[j] # x

\* r lists every value of seq once, in the order of first occurrence
IsFlattened(r, seq) ==
  /\ Range(r) = Range(seq)
  /\ \A i, j \in 1..Len(r) : i < j => First(seq, r[i]) < First(seq, r[j])

\* the name a string member of a union stands for, given the table and flag
MemberName(s, tbl, hasDefaultValue) ==
  IF s = "null" THEN (IF hasDefaultValue THEN "null" ELSE "null | undefined")
  ELSE IF s \in Primitives THEN Target(s)
  ELSE LET bare == stripNamespace(s)
       IN IF bare \in DOMAIN tbl THEN tbl[bare] ELSE bare

IsStringUnion(type) ==
  type.kind = "union" /\ \A i \in 1..Len(type.members) : type.members[i].kind = "string"


\* the first line of a block
Header(block) == Split(block, "\n")[1]

\* the identifier the naming rule of spec section 4.1 gives a declared record
ExpectedRecordName(d) ==
  "I" \o (IF d.parent = Undefined THEN "" ELSE stripNamespace(d.parent.name))
      \o stripNamespace(d.node.name)

\* block is a declaration of the record or enum node
IsBlockOf(block, node) ==
  /\ StartsWith(block, IF node.type = "enum" THEN "export enum " ELSE "export interface I")
  /\ EndsWith(Header(block), stripNamespace(node.name) \o " {")

NullableString == Union(<<Str("null"), Str("string")>>)

\* the latest call returned
IsCall == schema # Undefined /\ ~thrown
IsRecordCall == IsCall /\ schema.type = "record"

----------------------------------------------------------------------------
\* C1: a call of avroToTypeScript that repeats the previous call's schema
\* returns the previous call's text.
C1_SameSchemaSameText == [][(IsCall /\ schema' = schema) => output' = output]_vars

\* C3: hasDefaultValue is true exactly for the fields whose default key is
\* present, whatever its value.
C3_DefaultKeyPresent ==
  IsRecordCall =>
    \A i \in 1..Len(schema.fields) :
      hasDefaultValueOf(schema.fields[i]) <=> (schema.fields[i].default # JUndefined)

\* C2: a field line carries "?" exactly when the field's type is structurally
\* optional and hasDefaultValue is false; the null primitive of the field's
\* type is written "null" when hasDefaultValue is true and "null | undefined"
\* when it is false.
C2_NullDefaultInteraction ==
  IsRecordCall =>
    \A i \in 1..Len(schema.fields) :
      LET f == schema.fields[i]
          hasDefaultValue == hasDefaultValueOf(f)
          line == FieldLine(i)
          opt == StructurallyOptional(f.type) /\ ~hasDefaultValue
      IN /\ StartsWith(line, "\t" \o f.name \o "?: ") <=> opt
         /\ StartsWith(line, "\t" \o f.name \o ": ") <=> ~opt
         /\ MentionsNull(f.type) =>
              /\ HasSub(TypeText(line), "null")
              /\ HasSub(TypeText(line), "undefined") <=> ~hasDefaultValue
              /\ HasSub(TypeText(line), "null | undefined") <=> ~hasDefaultValue
         /\ (f.type = NullableString /\ f.default = JUndefined) =>
              line = "\t" \o f.name \o "?: null | undefined | string;"
         /\ (f.type = NullableString /\ f.default = JNull) =>
              line = "\t" \o f.name \o ": null | string;"

C2_Witness ==
  /\ IsRecordCall
  /\ Len(schema.fields) = 1
  /\ schema.fields[1].type = NullableString
  /\ schema.fields[1].default = JNull
  /\ output = "export interface IA {\n\tf: null | string;\n}\n"

\* C5: every enum of the schema, at any depth, has in the buffer the block
\* "export enum <stripped name> {" with one member per symbol, in order, each
\* written symbol = 'symbol'; a field whose type is the enum is typed with
\* the same stripped name.
C5_EnumRendering ==
  IsCall =>
    /\ \A d \in 1..Len(DeclaredNow) :
         LET e == DeclaredNow[d].node
         IN e.type = "enum" =>
              \E k \in 1..Len(buffer) :
                buffer[k] = ExpectedEnumBlock(stripNamespace(e.name), e.symbols)
    /\ schema.type = "record" =>
         \A i \in 1..Len(schema.fields) :
           LET t == schema.fields[i].type
           IN (t.kind = "object" /\ t.type = "enum") =>
                TypeText(FieldLine(i)) = stripNamespace(t.name)

\* C6: a reference to a name that convertRecord registered in an earlier call
\* is written as the generated identifier registered for it, in a field, a
\* union member, an array item and a map value.
C6_ReferenceResolved ==
  IsRecordCall =>
    \A i \in 1..Len(schema.fields), N \in DOMAIN before :
      LET t == schema.fields[i].type
          text == TypeText(FieldLine(i))
      IN /\ t = Str(N) => text = before[N]
         /\ t = Array(Str(N)) => text = before[N] \o "[]"
         /\ t = Map(Str(N)) => text = "{ [key: string]: " \o before[N] \o " }"
         /\ t = Union(<<Str("null"), Str(N)>>) => EndsWith(text, " | " \o before[N])

\* C8: a field of type long, int, double, float, bytes or boolean is typed
\* number, number, number, number, Buffer, boolean, whatever its default and
\* whatever was converted before.
C8_PrimitiveMapping ==
  IsRecordCall =>
    \A i \in 1..Len(schema.fields) :
      LET t == schema.fields[i].type
      IN (t.kind = "string" /\ t.value \in Primitives) =>
           TypeText(FieldLine(i)) = Target(t.value)

\* C9: a call whose top-level record has an unrecognized shape in a field
\* (as the field's type, an array's items or a union's last member) does not
\* abort: it writes UNKNOWN where the shape stands and returns the whole text,
\* one block per declared record or enum, the top-level record's block with
\* one line per field.
C9_UnknownIsNotFatal ==
  (schema # Undefined /\ schema.type = "record" /\ MeetsUnknown) =>
    /\ ~thrown
    /\ Len(buffer) = Len(DeclaredNow)
    /\ output = join(buffer, "\n")
    /\ StartsWith(buffer[Len(buffer)],
                  "export interface I" \o stripNamespace(schema.name) \o " {\n")
    /\ Len(LastBlockLines) = Len(schema.fields) + 3
    /\ \A i \in 1..Len(schema.fields) :
         LET t == schema.fields[i].type
             text == TypeText(FieldLine(i))
         IN /\ StartsWith(FieldLine(i), "\t" \o schema.fields[i].name)
            /\ EndsWith(FieldLine(i), ";")
            /\ IsUnknownShape(t) => text = "UNKNOWN"
            /\ (t.kind = "object" /\ t.type = "array" /\ IsUnknownShape(t.items)) =>
                 text = "UNKNOWN[]"
            /\ (t.kind = "union" /\ IsUnknownShape(t.members[Len(t.members)])) =>
                 EndsWith(text, " | UNKNOWN")

\* C7: a union is written as its members' names (after translation and table
\* resolution), each once, in first-occurrence order, joined with " | ", the
\* null member being "null" for a field with a default and "null | undefined"
\* for a field without; ["string","string","null"] is "string | null |
\* undefined" for a field with no default and "string | null" for a field
\* with a default.  A field has a default when its default key is present.
C7_UnionFlattening ==
  IsRecordCall =>
    \A i \in 1..Len(schema.fields) :
      LET f == schema.fields[i]
          t == f.type
          text == TypeText(FieldLine(i))
          withDefault == f.default # JUndefined
          names == [k \in 1..Len(t.members) |->
                      MemberName(t.members[k].value, before, withDefault)]
      IN /\ IsStringUnion(t) =>
              \E r \in [1..Cardinality(Range(names)) -> Range(names)] :
                IsFlattened(r, names) /\ text = join(r, " | ")
         /\ (t = StringStringNull /\ ~withDefault) => text = "string | null | undefined"
         /\ (t = StringStringNull /\ withDefault) => text = "string | null"
         /\ t \in {Union(<<Str("A"), Record("A", <<>>)>>),
                   Union(<<Record("A", <<>>), Str("A")>>)} => text = "IA"
         /\ t = Union(<<Enum("n.E", <<"RED">>), Str("E")>>) => text = "E"

\* C4: every record met while a field of a parent record P is translated,
\* directly or inside the field's union, array or map, is declared as
\* I<stripped P><stripped own name>; the top-level record as I<stripped name>.
C4_NestedRecordNaming ==
  IsRecordCall =>
    \A d \in 1..Len(DeclaredNow) :
      DeclaredNow[d].node.type = "record" =>
        \E k \in 1..Len(buffer) :
          StartsWith(buffer[k],
                     "export interface " \o ExpectedRecordName(DeclaredNow[d]) \o " {\n")

\* C10: every call leaves in the buffer one block per record or enum the
\* schema declares, every block of a nested declaration before the block of
\* the record it is nested in, the top-level block last, and the text is the
\* buffer joined in that order.
C10_ChildrenBeforeParents ==
  schema # Undefined =>
    /\ Len(buffer) = Len(DeclaredNow)
    /\ \A d \in 1..Len(buffer) : IsBlockOf(buffer[d], DeclaredNow[d].node)
    /\ IsBlockOf(buffer[Len(buffer)], schema)
    /\ output = join(buffer, "\n")

====
